---- MODULE Spec2Model ----
(***************************************************************************)
(* Model of daemon.py: the Daemon base class (daemonize, start, stop,      *)
(* status, run), the processes it forks, the PID file they share and the   *)
(* SIGTERM signal that stop() sends.                                       *)
(*                                                                         *)
(* Commands are invoked one after the other from a shell: a command is     *)
(* invoked only after the foreground process of the previous one has       *)
(* exited.  The processes that daemonize() forks run in the background,    *)
(* interleaved with later commands.                                        *)
(***************************************************************************)
EXTENDS Integers, Sequences, FiniteSets, TLC

(* ------------------------------ bounds --------------------------------- *)
MaxCmds == 3          \* commands invoked from the shell in one behaviour
MaxProcs == 7         \* processes the system can create; then fork fails

(* ----------------------- operating system values ----------------------- *)
FirstPid == 8         \* first process id the system hands out
StalePid == FirstPid - 1   \* id of a process that is long gone
LastPid == FirstPid + MaxProcs - 1
Pids == FirstPid .. LastPid
None == -1            \* Python's None for the local variable pid

RootDir == "/"
HomeDir == "/home/user/"
Dirs == {RootDir, HomeDir}

\* the two kinds of pidfile argument: an absolute and a relative path
AbsPidFile == [abs |-> TRUE, dir |-> "/tmp/", name |-> "daemon.pid"]
RelPidFile == [abs |-> FALSE, dir |-> "", name |-> "daemon.pid"]
PidFiles == {AbsPidFile, RelPidFile}

\* open(path): a relative path is resolved against the working directory
Resolve(path, cwd) ==
    IF path.abs THEN <<path.dir, path.name>> ELSE <<cwd, path.name>>

Locations == {Resolve(f, d) : f \in PidFiles, d \in Dirs}

(* --------------------------- PID file text ----------------------------- *)
Digits == <<"0", "1", "2", "3", "4", "5", "6", "7", "8", "9">>
IsDigit(c) == \E i \in 1..10 : Digits[i] = c
DigitVal(c) == CHOOSE d \in 0..9 : Digits[d + 1] = c
IsSpace(c) == c \in {" ", "\n"}

\* str(n) for n >= 0
RECURSIVE Str(_)
Str(n) == IF n < 10 THEN <<Digits[n + 1]>>
          ELSE Append(Str(n \div 10), Digits[(n % 10) + 1])

\* print(n, file=f): the decimal text and a newline
PrintLine(n) == Str(n) \o <<"\n">>

RECURSIVE LStrip(_)
LStrip(s) == IF s # <<>> /\ IsSpace(Head(s)) THEN LStrip(Tail(s)) ELSE s

RECURSIVE RStrip(_)
RStrip(s) == IF s # <<>> /\ IsSpace(s[Len(s)])
             THEN RStrip(SubSeq(s, 1, Len(s) - 1)) ELSE s

\* s.strip()
Strip(s) == RStrip(LStrip(s))

\* int(s) succeeds on a non-empty run of digits
IsInt(s) == s # <<>> /\ \A i \in 1..Len(s) : IsDigit(s[i])

RECURSIVE IntOf(_)
IntOf(s) == IF s = <<>> THEN 0
            ELSE 10 * IntOf(SubSeq(s, 1, Len(s) - 1)) + DigitVal(s[Len(s)])

NoFile == [exists |-> FALSE, data |-> <<>>, by |-> 0]
FileOf(text, w) == [exists |-> TRUE, data |-> text, by |-> w]

\* what a PID file may hold before the first command
Garbage == <<"a", "b", "c">>
InitContents == {NoFile, FileOf(Garbage, 0), FileOf(<<>>, 0),
                 FileOf(PrintLine(StalePid), 0)}

(* ------------------------------- state --------------------------------- *)
VARIABLES
    proc,       \* process table: pid -> process record
    files,      \* file system: location -> file
    nextPid,    \* next process id the system hands out
    cmds,       \* number of commands invoked so far
    pidfile,    \* Daemon.pidfile, the same for every command
    shellCwd    \* working directory of the shell that invokes the commands

vars == <<proc, files, nextPid, cmds, pidfile, shellCwd>>

Unused == [kind |-> "none", cmd |-> "none", pc |-> "unused", cwd |-> RootDir,
           umask |-> 18, sid |-> 0, stdio |-> "tty", pid |-> None,
           selfpid |-> 0, atexit |-> FALSE, handler |-> FALSE, sig |-> FALSE,
           status |-> None, cleaned |-> FALSE, report |-> "", sent |-> <<>>,
           parent |-> 0, steps |-> <<>>]

Alive(p) == proc[p].pc \notin {"unused", "exited", "killed"}

\* the location a process's open(self.pidfile) refers to
PidLoc(p) == Resolve(pidfile, proc[p].cwd)

Init ==
    /\ pidfile \in PidFiles
    /\ shellCwd \in Dirs
    /\ proc = [p \in Pids |-> Unused]
    /\ \E c \in InitContents :
          files = [l \in Locations |->
                      IF l = Resolve(pidfile, shellCwd) THEN c ELSE NoFile]
    /\ nextPid = FirstPid
    /\ cmds = 0

(* --------------------------- process exit ------------------------------ *)
\* Interpreter shutdown of process record r with exit status s: the
\* functions registered with atexit run (line 56: os.remove(self.pidfile)).
Exited(r, s) == [r EXCEPT !.pc = "exited", !.status = s, !.cleaned = r.atexit]

\* shutdown in which the registered os.remove does not happen
AfterExit_KeepsFile(r) == files

\* the file system after process record r has shut down
AfterExit(r) ==
    IF r.atexit
    THEN [files EXCEPT ![Resolve(pidfile, r.cwd)] = NoFile]
    ELSE files

\* Default disposition of SIGTERM: the process is terminated at once,
\* nothing registered with atexit runs.
Killed(r) == [r EXCEPT !.pc = "killed", !.status = -15, !.sig = FALSE]

(* ----------------------- _get_pid_from_file ---------------------------- *)
\* _get_pid_from_file with ValueError handled like IOError (pid = None)
get_pid_from_file_Lenient(p) ==
    LET f == files[PidLoc(p)] IN
    IF f.exists /\ IsInt(Strip(f.data))
    THEN [res |-> "ok", pid |-> IntOf(Strip(f.data))]
    ELSE [res |-> "ok", pid |-> None]

\* Result of _get_pid_from_file for process p: "ok" with the pid (None when
\* the file cannot be opened), or "exit" when int() raises ValueError.
get_pid_from_file(p) ==
    LET f == files[PidLoc(p)] IN
    IF ~f.exists THEN [res |-> "ok", pid |-> None]
    ELSE IF IsInt(Strip(f.data))
         THEN [res |-> "ok", pid |-> IntOf(Strip(f.data))]
         ELSE [res |-> "exit", pid |-> None]

\* print('Error: PID file ... PID is not a number.'); raise SystemExit(1)
MalformedExit(r) == Exited([r EXCEPT !.report = "pid is not a number"], 1)

(* ------------------------------ commands ------------------------------- *)
ForegroundBusy == \E p \in Pids : proc[p].kind = "caller" /\ Alive(p)

\* The __main__ block: the shell runs the script with one of the three
\* commands; the script builds the Daemon and calls the method.
Invoke(c) ==
    /\ cmds < MaxCmds
    /\ nextPid \in Pids
    /\ ~ForegroundBusy
    /\ proc' = [proc EXCEPT ![nextPid] =
                  [Unused EXCEPT !.kind = "caller", !.cmd = c,
                                 !.pc = "get_pid", !.cwd = shellCwd]]
    /\ nextPid' = nextPid + 1
    /\ cmds' = cmds + 1
    /\ UNCHANGED <<files, pidfile, shellCwd>>

\* start() that daemonizes whatever the PID file says
StartRead_IgnoresPid(p) ==
    /\ proc[p].cmd = "start" /\ proc[p].pc = "get_pid"
    /\ LET g == get_pid_from_file(p) IN
       proc' = [proc EXCEPT ![p] =
                  IF g.res = "exit" THEN MalformedExit(@)
                  ELSE [@ EXCEPT !.pid = None, !.pc = "fork1",
                                 !.report = "starting"]]
    /\ UNCHANGED <<files, nextPid, cmds, pidfile, shellCwd>>

\* start(), lines 79-82 and 85-86
StartRead(p) ==
    /\ proc[p].cmd = "start" /\ proc[p].pc = "get_pid"
    /\ LET g == get_pid_from_file(p) IN
       proc' = [proc EXCEPT ![p] =
                  IF g.res = "exit" THEN MalformedExit(@)
                  ELSE IF g.pid = None
                  THEN [@ EXCEPT !.pid = None, !.pc = "fork1",
                                 !.report = "starting"]
                  ELSE Exited([@ EXCEPT !.pid = g.pid,
                                        !.report = "already running"], 0)]
    /\ UNCHANGED <<files, nextPid, cmds, pidfile, shellCwd>>

\* status() that probes the recorded process and removes a PID file whose
\* process is gone
Status_RemovesStale(p) ==
    /\ proc[p].cmd = "status" /\ proc[p].pc = "get_pid"
    /\ LET g == get_pid_from_file(p)
           live == g.pid \in Pids /\ Alive(g.pid) IN
       /\ proc' = [proc EXCEPT ![p] =
                     IF g.res = "exit" THEN MalformedExit(@)
                     ELSE IF g.pid = None \/ ~live
                     THEN Exited([@ EXCEPT !.pid = g.pid,
                                           !.report = "not running"], 0)
                     ELSE Exited([@ EXCEPT !.pid = g.pid,
                                           !.report = "running"], 0)]
       /\ files' = IF g.res = "ok" /\ g.pid # None /\ ~live
                   THEN [files EXCEPT ![PidLoc(p)] = NoFile] ELSE files
    /\ UNCHANGED <<nextPid, cmds, pidfile, shellCwd>>

\* status(), lines 88-94
Status(p) ==
    /\ proc[p].cmd = "status" /\ proc[p].pc = "get_pid"
    /\ LET g == get_pid_from_file(p) IN
       proc' = [proc EXCEPT ![p] =
                  IF g.res = "exit" THEN MalformedExit(@)
                  ELSE IF g.pid = None
                  THEN Exited([@ EXCEPT !.pid = None,
                                        !.report = "not running"], 0)
                  ELSE Exited([@ EXCEPT !.pid = g.pid,
                                        !.report = "running"], 0)]
    /\ UNCHANGED <<files, nextPid, cmds, pidfile, shellCwd>>

\* stop() that goes on to os.kill when the PID file is absent
StopRead_KillsNone(p) ==
    /\ proc[p].cmd = "stop" /\ proc[p].pc = "get_pid"
    /\ LET g == get_pid_from_file(p) IN
       proc' = [proc EXCEPT ![p] =
                  IF g.res = "exit" THEN MalformedExit(@)
                  ELSE [@ EXCEPT !.pid = g.pid, !.pc = "kill",
                                 !.report = "stopping"]]
    /\ UNCHANGED <<files, nextPid, cmds, pidfile, shellCwd>>

\* stop(), lines 98-102
StopRead(p) ==
    /\ proc[p].cmd = "stop" /\ proc[p].pc = "get_pid"
    /\ LET g == get_pid_from_file(p) IN
       proc' = [proc EXCEPT ![p] =
                  IF g.res = "exit" THEN MalformedExit(@)
                  ELSE IF g.pid = None
                  THEN Exited([@ EXCEPT !.pid = None,
                                        !.report = "not running"], 0)
                  ELSE [@ EXCEPT !.pid = g.pid, !.pc = "kill",
                                 !.report = "stopping"]]
    /\ UNCHANGED <<files, nextPid, cmds, pidfile, shellCwd>>

\* stop() that also removes the PID file after os.kill
StopKill_RemovesPidFile(p) ==
    /\ proc[p].cmd = "stop" /\ proc[p].pc = "kill"
    /\ LET t == proc[p].pid IN
       IF t \in Pids /\ t # p /\ Alive(t)
       THEN proc' = [proc EXCEPT
                       ![p] = Exited([@ EXCEPT !.sent = Append(@, t)], 0),
                       ![t] = [@ EXCEPT !.sig = TRUE]]
       ELSE proc' = [proc EXCEPT ![p] =
                       Exited([@ EXCEPT !.report = "no such process"], 1)]
    /\ files' = [files EXCEPT ![PidLoc(p)] = NoFile]
    /\ UNCHANGED <<nextPid, cmds, pidfile, shellCwd>>

\* stop(), line 103: os.kill(pid, signal.SIGTERM), then return.  When no
\* process has that id os.kill raises OSError, which nothing catches.
StopKill(p) ==
    /\ proc[p].cmd = "stop" /\ proc[p].pc = "kill"
    /\ LET t == proc[p].pid IN
       IF t \in Pids /\ t # p /\ Alive(t)
       THEN proc' = [proc EXCEPT
                       ![p] = Exited([@ EXCEPT !.sent = Append(@, t)], 0),
                       ![t] = [@ EXCEPT !.sig = TRUE]]
       ELSE proc' = [proc EXCEPT ![p] =
                       Exited([@ EXCEPT !.report = "no such process"], 1)]
    /\ UNCHANGED <<files, nextPid, cmds, pidfile, shellCwd>>

(* ------------------------------ daemonize ------------------------------ *)
\* the child of a fork: a copy of the parent that continues at pc
Child(r, parent, kind, pc) ==
    [r EXCEPT !.kind = kind, !.pc = pc, !.parent = parent, !.sig = FALSE,
              !.steps = Append(@, "fork")]

\* first fork whose parent does not exit but carries on like the child
Fork1_ParentContinues(p) ==
    /\ proc[p].pc = "fork1"
    /\ \/ /\ nextPid \in Pids
          /\ proc' = [proc EXCEPT
                        ![p] = [@ EXCEPT !.pc = "detach"],
                        ![nextPid] = Child(proc[p], p, "leader", "detach")]
          /\ nextPid' = nextPid + 1
       \/ /\ proc' = [proc EXCEPT ![p] =
                        Exited([@ EXCEPT !.report = "fork #1 failed"], 1)]
          /\ nextPid' = nextPid
    /\ UNCHANGED <<files, cmds, pidfile, shellCwd>>

\* lines 21-25: first fork.  The parent raises SystemExit(0); when fork
\* fails (as it does when the system has no process left to give),
\* RuntimeError ends the process.
Fork1(p) ==
    /\ proc[p].pc = "fork1"
    /\ \/ /\ nextPid \in Pids
          /\ proc' = [proc EXCEPT
                        ![p] = Exited(@, 0),
                        ![nextPid] = Child(proc[p], p, "leader", "detach")]
          /\ nextPid' = nextPid + 1
       \/ /\ proc' = [proc EXCEPT ![p] =
                        Exited([@ EXCEPT !.report = "fork #1 failed"], 1)]
          /\ nextPid' = nextPid
    /\ UNCHANGED <<files, cmds, pidfile, shellCwd>>

\* lines 27-29: os.chdir('/'), os.umask(0), os.setsid()
Detach(p) ==
    /\ proc[p].pc = "detach"
    /\ proc' = [proc EXCEPT ![p] =
                  [@ EXCEPT !.cwd = RootDir, !.umask = 0, !.sid = p,
                            !.pc = "fork2",
                            !.steps = @ \o <<"chdir", "umask", "setsid">>]]
    /\ UNCHANGED <<files, nextPid, cmds, pidfile, shellCwd>>

\* second fork whose child writes the PID file before redirecting
Fork2_SkipsRedirect(p) ==
    /\ proc[p].pc = "fork2"
    /\ \/ /\ nextPid \in Pids
          /\ proc' = [proc EXCEPT
                        ![p] = Exited(@, 0),
                        ![nextPid] = Child(proc[p], p, "daemon", "open_pidfile")]
          /\ nextPid' = nextPid + 1
       \/ /\ proc' = [proc EXCEPT ![p] =
                        Exited([@ EXCEPT !.report = "fork #2 failed"], 1)]
          /\ nextPid' = nextPid
    /\ UNCHANGED <<files, cmds, pidfile, shellCwd>>

\* second fork that swallows OSError: the session leader carries on alone
Fork2_IgnoresFailure(p) ==
    /\ proc[p].pc = "fork2"
    /\ \/ /\ nextPid \in Pids
          /\ proc' = [proc EXCEPT
                        ![p] = Exited(@, 0),
                        ![nextPid] = Child(proc[p], p, "daemon", "redirect")]
          /\ nextPid' = nextPid + 1
       \/ /\ proc' = [proc EXCEPT ![p] = [@ EXCEPT !.pc = "redirect"]]
          /\ nextPid' = nextPid
    /\ UNCHANGED <<files, cmds, pidfile, shellCwd>>

\* lines 32-36: second fork
Fork2(p) ==
    /\ proc[p].pc = "fork2"
    /\ \/ /\ nextPid \in Pids
          /\ proc' = [proc EXCEPT
                        ![p] = Exited(@, 0),
                        ![nextPid] = Child(proc[p], p, "daemon", "redirect")]
          /\ nextPid' = nextPid + 1
       \/ /\ proc' = [proc EXCEPT ![p] =
                        Exited([@ EXCEPT !.report = "fork #2 failed"], 1)]
          /\ nextPid' = nextPid
    /\ UNCHANGED <<files, cmds, pidfile, shellCwd>>

\* lines 39-48: flush, then open the three targets and dup2 them onto
\* descriptors 0, 1 and 2.  An open that fails raises IOError, which ends
\* the process.
Redirect(p) ==
    /\ proc[p].pc = "redirect"
    /\ \/ proc' = [proc EXCEPT ![p] =
                     [@ EXCEPT !.stdio = "files", !.pc = "open_pidfile",
                               !.steps = @ \o <<"flush", "redirect">>]]
       \/ proc' = [proc EXCEPT ![p] =
                     Exited([@ EXCEPT !.report = "cannot open",
                                      !.steps = Append(@, "flush")], 1)]
    /\ UNCHANGED <<files, nextPid, cmds, pidfile, shellCwd>>

\* lines 51-52: self.pid = os.getpid(); open(self.pidfile, 'w') creates the
\* file or truncates it
OpenPidFile(p) ==
    /\ proc[p].pc = "open_pidfile"
    /\ proc' = [proc EXCEPT ![p] = [@ EXCEPT !.selfpid = p,
                                             !.pc = "write_pidfile"]]
    /\ files' = [files EXCEPT ![PidLoc(p)] = FileOf(<<>>, p)]
    /\ UNCHANGED <<nextPid, cmds, pidfile, shellCwd>>

\* PID file written, but the atexit registration left out
WritePidFile_NoAtexit(p) ==
    /\ proc[p].pc = "write_pidfile"
    /\ proc' = [proc EXCEPT ![p] = [@ EXCEPT !.pc = "signal",
                                             !.steps = Append(@, "pidfile")]]
    /\ files' = [files EXCEPT ![PidLoc(p)] =
                    FileOf(PrintLine(proc[p].selfpid), p)]
    /\ UNCHANGED <<nextPid, cmds, pidfile, shellCwd>>

\* line 53 and the end of the with block: print(self.pid, file=f) reaches
\* the file when f is closed
WritePidFile(p) ==
    /\ proc[p].pc = "write_pidfile"
    /\ proc' = [proc EXCEPT ![p] = [@ EXCEPT !.pc = "register",
                                             !.steps = Append(@, "pidfile")]]
    /\ files' = [files EXCEPT ![PidLoc(p)] =
                    FileOf(PrintLine(proc[p].selfpid), p)]
    /\ UNCHANGED <<nextPid, cmds, pidfile, shellCwd>>

\* line 56: atexit.register(lambda: os.remove(self.pidfile))
RegisterAtexit(p) ==
    /\ proc[p].pc = "register"
    /\ proc' = [proc EXCEPT ![p] = [@ EXCEPT !.atexit = TRUE, !.pc = "signal",
                                             !.steps = Append(@, "atexit")]]
    /\ UNCHANGED <<files, nextPid, cmds, pidfile, shellCwd>>

\* lines 59-62: signal.signal(signal.SIGTERM, sigterm_handler); daemonize
\* returns and start() goes on to self.run()
InstallHandler(p) ==
    /\ proc[p].pc = "signal"
    /\ proc' = [proc EXCEPT ![p] = [@ EXCEPT !.handler = TRUE, !.pc = "run",
                                             !.steps = @ \o <<"handler", "run">>]]
    /\ UNCHANGED <<files, nextPid, cmds, pidfile, shellCwd>>

(* -------------------------------- run ---------------------------------- *)
\* run() of a subclass returns: start() returns and the script ends
RunReturns(p) ==
    /\ proc[p].pc = "run"
    /\ proc' = [proc EXCEPT ![p] = Exited(@, 0)]
    /\ files' = AfterExit(proc[p])
    /\ UNCHANGED <<nextPid, cmds, pidfile, shellCwd>>

\* run() raises and the process ends without running atexit functions
RunRaises_NoCleanup(p) ==
    /\ proc[p].pc = "run"
    /\ proc' = [proc EXCEPT ![p] =
                  [@ EXCEPT !.pc = "exited", !.status = 1,
                            !.report = "run raised"]]
    /\ UNCHANGED <<files, nextPid, cmds, pidfile, shellCwd>>

\* lines 105-107: run() raises (NotImplementedError in the base class);
\* the uncaught exception ends the script with status 1
RunRaises(p) ==
    /\ proc[p].pc = "run"
    /\ proc' = [proc EXCEPT ![p] =
                  Exited([@ EXCEPT !.report = "run raised"], 1)]
    /\ files' = AfterExit(proc[p])
    /\ UNCHANGED <<nextPid, cmds, pidfile, shellCwd>>

(* ------------------------------ signals -------------------------------- *)
\* handler that leaves with os._exit(1): no atexit function runs
Deliver_NoCleanup(p) ==
    /\ Alive(p) /\ proc[p].sig
    /\ IF proc[p].handler
       THEN proc' = [proc EXCEPT ![p] =
                       [@ EXCEPT !.pc = "exited", !.status = 1, !.sig = FALSE]]
       ELSE proc' = [proc EXCEPT ![p] = Killed(@)]
    /\ UNCHANGED <<files, nextPid, cmds, pidfile, shellCwd>>

\* handler that raises SystemExit(0)
Deliver_ExitZero(p) ==
    /\ Alive(p) /\ proc[p].sig
    /\ IF proc[p].handler
       THEN /\ proc' = [proc EXCEPT ![p] = Exited([@ EXCEPT !.sig = FALSE], 0)]
            /\ files' = AfterExit(proc[p])
       ELSE /\ proc' = [proc EXCEPT ![p] = Killed(@)]
            /\ files' = files
    /\ UNCHANGED <<nextPid, cmds, pidfile, shellCwd>>

\* lines 59-60: a pending SIGTERM is delivered to p.  With the handler
\* installed it raises SystemExit(1); without it the process is terminated.
Deliver(p) ==
    /\ Alive(p) /\ proc[p].sig
    /\ IF proc[p].handler
       THEN /\ proc' = [proc EXCEPT ![p] = Exited([@ EXCEPT !.sig = FALSE], 1)]
            /\ files' = AfterExit(proc[p])
       ELSE /\ proc' = [proc EXCEPT ![p] = Killed(@)]
            /\ files' = files
    /\ UNCHANGED <<nextPid, cmds, pidfile, shellCwd>>

(* --------------------------- specification ----------------------------- *)
Next ==
    \/ \E c \in {"start", "stop", "status"} : Invoke(c)
    \/ \E p \in Pids : StartRead(p)
    \/ \E p \in Pids : Status(p)
    \/ \E p \in Pids : StopRead(p)
    \/ \E p \in Pids : StopKill(p)
    \/ \E p \in Pids : Fork1(p)
    \/ \E p \in Pids : Detach(p)
    \/ \E p \in Pids : Fork2(p)
    \/ \E p \in Pids : Redirect(p)
    \/ \E p \in Pids : OpenPidFile(p)
    \/ \E p \in Pids : WritePidFile(p)
    \/ \E p \in Pids : RegisterAtexit(p)
    \/ \E p \in Pids : InstallHandler(p)
    \/ \E p \in Pids : RunReturns(p)
    \/ \E p \in Pids : RunRaises(p)
    \/ \E p \in Pids : Deliver(p)

Spec == Init /\ [][Next]_vars

\* Scheduling: every process that can take a step of the script, and every
\* pending signal, is served eventually.  Nothing obliges the shell to invoke
\* a command, nor run() to end.
ProcStep(p) ==
    \/ StartRead(p) \/ Status(p) \/ StopRead(p) \/ StopKill(p)
    \/ Fork1(p) \/ Detach(p) \/ Fork2(p) \/ Redirect(p)
    \/ OpenPidFile(p) \/ WritePidFile(p) \/ RegisterAtexit(p)
    \/ InstallHandler(p) \/ Deliver(p)

Fairness == \A p \in Pids : WF_vars(ProcStep(p))

\* The scenario of section 8: PidFile absent, then start(), then stop(),
\* then status() (and status() again for any further command).
InitAbsent == Init /\ \A l \in Locations : ~files[l].exists
Scenario == <<"start", "stop", "status">>
ScenarioCmd(n) == IF n <= Len(Scenario) THEN Scenario[n] ELSE "status"

ScenarioNext ==
    \/ \E c \in {"start", "stop", "status"} :
          c = ScenarioCmd(cmds + 1) /\ Invoke(c)
    \/ \E p \in Pids : ProcStep(p)
    \/ \E p \in Pids : RunReturns(p)
    \/ \E p \in Pids : RunRaises(p)

ScenarioSpec == InitAbsent /\ [][ScenarioNext]_vars /\ Fairness

\* Restart: PidFile absent, then start(), then stop() once a daemon is in
\* run(), then start() again or status() to look at the outcome (and
\* status() for any further command).
RestartScenario == <<{"start"}, {"stop"}, {"start", "status"}>>
RestartCmd(n) ==
    IF n <= Len(RestartScenario) THEN RestartScenario[n] ELSE {"status"}

RestartNext ==
    \/ \E c \in {"start", "stop", "status"} :
          /\ c \in RestartCmd(cmds + 1)
          /\ c = "stop" =>
                \E d \in Pids : proc[d].kind = "daemon" /\ proc[d].pc = "run"
          /\ Invoke(c)
    \/ \E p \in Pids : ProcStep(p)
    \/ \E p \in Pids : RunReturns(p)
    \/ \E p \in Pids : RunRaises(p)

RestartSpec == InitAbsent /\ [][RestartNext]_vars /\ Fairness

(* ------------------------- auxiliary predicates ------------------------ *)
IsDaemon(p) == proc[p].kind = "daemon"
Range(f) == {f[i] : i \in DOMAIN f}
\* some stop() has sent SIGTERM to p
Signalled(p) == \E q \in Pids : p \in Range(proc[q].sent)
\* the command process p takes its reading step
Reads(p, c) ==
    proc[p].cmd = c /\ proc[p].pc = "get_pid" /\ proc'[p].pc # "get_pid"
\* nothing but the process record of p changes
OnlyProcChanges(p) ==
    /\ files' = files /\ nextPid' = nextPid
    /\ \A q \in Pids \ {p} : proc'[q] = proc[q]
PidFileAbsent(p) == ~files[PidLoc(p)].exists
PidFileInt(p) ==
    files[PidLoc(p)].exists /\ IsInt(Strip(files[PidLoc(p)].data))
PidFileMalformed(p) ==
    files[PidLoc(p)].exists /\ ~IsInt(Strip(files[PidLoc(p)].data))

(* -------------------------------- C1 ----------------------------------- *)
\* C1: under sequential use of the commands at most one daemon started on
\* the PidFile path is alive (here: is executing run()).
C1_AtMostOneDaemon ==
    Cardinality({p \in Pids : IsDaemon(p) /\ proc[p].pc = "run"}) <= 1

(* -------------------------------- C2 ----------------------------------- *)
\* C2: when the daemon started by start() writes PidFile, the file at the
\* configured path (as the caller names it) exists and holds the positive
\* process id of that final detached process.
C2_PidFileAtConfiguredPath ==
    [][\A p \in Pids :
         proc[p].pc = "write_pidfile" /\ proc'[p].pc = "register" =>
            LET f == files'[Resolve(pidfile, shellCwd)] IN
            /\ f.exists /\ IsInt(Strip(f.data))
            /\ IntOf(Strip(f.data)) = p /\ p > 0 /\ IsDaemon(p)]_vars

(* -------------------------------- C3 ----------------------------------- *)
\* C3 as stated: whenever a PidFile written by a daemon exists, that daemon
\* is detached, redirected, has registered its cleanup and installed its
\* SIGTERM handler.
C3_PidFileImpliesSetupDone ==
    \A l \in Locations :
       files[l].exists /\ files[l].by # 0 =>
          LET w == proc[files[l].by] IN
          /\ w.kind = "daemon" /\ w.sid # 0 /\ w.stdio = "files"
          /\ w.atexit /\ w.handler

\* C3 amended: whenever a PidFile written by a daemon exists, that daemon is
\* the child of the second fork, in a session it does not lead, with working
\* directory / and umask 0, and its standard streams are redirected.
C3_PidFileImpliesDetached ==
    \A l \in Locations :
       files[l].exists /\ files[l].by # 0 =>
          LET w == proc[files[l].by] IN
          /\ w.kind = "daemon" /\ w.sid # 0 /\ w.sid # files[l].by
          /\ w.sid = w.parent /\ w.cwd = RootDir /\ w.umask = 0
          /\ w.stdio = "files"

\* a PidFile exists whose writer has no handler yet and gets a SIGTERM
C3_Witness ==
    \E l \in Locations :
       /\ files[l].exists /\ files[l].by # 0
       /\ ~proc[files[l].by].handler /\ proc[files[l].by].sig

(* -------------------------------- C4 ----------------------------------- *)
\* C4 as stated: in the scenario start(), stop(), status(), the daemon that
\* has written PidFile and then receives the SIGTERM of stop() ends with its
\* cleanup action run; so once it has terminated, its cleanup has run.
C4_StoppedDaemonCleansUp ==
    \A p \in Pids :
       IsDaemon(p) /\ Signalled(p) /\ ~Alive(p) => proc[p].cleaned

\* C4 amended: in the scenario start(), stop(), status() from an absent
\* PidFile, a daemon that has installed its SIGTERM handler and is sent
\* SIGTERM eventually exits, its cleanup removes PidFile, and every status()
\* that reads after that reports not running.  A daemon that is signalled
\* before it has installed the handler is terminated without cleanup and
\* the PidFile it wrote stays.
C4_StopAfterSetupCleansUp ==
    /\ \A p \in Pids :
          (proc[p].handler /\ proc[p].sig)
             ~> (proc[p].pc = "exited" /\ proc[p].cleaned)
    /\ [][\A p \in Pids :
            /\ Alive(p) /\ ~Alive(p)' /\ proc'[p].cleaned
                  => ~files'[PidLoc(p)].exists
            /\ /\ Reads(p, "status")
               /\ \E d \in Pids : proc[d].pc = "exited" /\ proc[d].cleaned
               => proc'[p].report = "not running"]_vars
    /\ [](\A d \in Pids :
            IsDaemon(d) /\ proc[d].pc = "killed" =>
               /\ ~proc[d].handler /\ ~proc[d].cleaned
               /\ files[PidLoc(d)] = FileOf(PrintLine(d), d))

\* a daemon stopped after setup has exited through its handler, PidFile is
\* gone, and the status() invoked after that stop() has read the absent
\* PidFile that the caller names and the daemon wrote
C4_Witness ==
    \E p, s, q \in Pids :
       /\ IsDaemon(p) /\ p \in Range(proc[s].sent) /\ proc[p].pc = "exited"
       /\ proc[p].cleaned /\ ~proc[p].sig /\ ~files[PidLoc(p)].exists
       /\ q > s /\ proc[q].cmd = "status" /\ proc[q].report = "not running"
       /\ PidLoc(q) = PidLoc(p)

(* -------------------------------- C5 ----------------------------------- *)
\* C5: start() on a PidFile holding an integer forks nothing, signals
\* nothing and changes no file; it reports already running and returns.
C5_StartWhenPresentIsNoOp ==
    [][\A p \in Pids :
         Reads(p, "start") /\ PidFileInt(p) =>
            /\ OnlyProcChanges(p)
            /\ proc'[p] = Exited([proc[p] EXCEPT
                              !.pid = IntOf(Strip(files[PidLoc(p)].data)),
                              !.report = "already running"], 0)
            /\ proc'[p].sent = <<>> /\ ~proc'[p].cleaned]_vars

\* a start() has found the PidFile of a running daemon and has returned,
\* with that daemon running on and no further process created
C5_Witness ==
    \E p \in Pids :
       /\ proc[p].cmd = "start" /\ proc[p].report = "already running"
       /\ proc[p].pc = "exited" /\ proc[p].status = 0
       /\ proc[p].pid \in Pids /\ IsDaemon(proc[p].pid)
       /\ proc[proc[p].pid].pc = "run" /\ nextPid = p + 1

(* -------------------------------- C6 ----------------------------------- *)
\* a pending SIGTERM is delivered to p in this step
Delivered(p) == Alive(p) /\ proc[p].sig /\ ~proc'[p].sig

\* C6 as stated: whenever SIGTERM is delivered to a daemon process it exits
\* with status 1 and its cleanup action deletes PidFile.
C6_SigtermAlwaysCleansUp ==
    [][\A p \in Pids :
         IsDaemon(p) /\ Delivered(p) =>
            /\ proc'[p].pc = "exited" /\ proc'[p].status = 1
            /\ proc'[p].cleaned /\ ~files'[PidLoc(p)].exists]_vars

\* C6 amended: a SIGTERM delivered to a daemon whose handler is installed
\* makes it exit with status 1 and its cleanup deletes PidFile; a SIGTERM
\* delivered before that terminates the process, no cleanup runs and every
\* file stays as it is.
C6_SigtermAfterHandlerCleansUp ==
    [][\A p \in Pids :
         IsDaemon(p) /\ Delivered(p) =>
            IF proc[p].handler
            THEN /\ proc'[p].pc = "exited" /\ proc'[p].status = 1
                 /\ proc'[p].cleaned /\ ~files'[PidLoc(p)].exists
            ELSE /\ proc'[p].pc = "killed" /\ ~proc'[p].cleaned
                 /\ files' = files]_vars

\* a daemon with its handler installed has been sent SIGTERM by stop() and
\* has left with status 1 and its PidFile removed
C6_Witness ==
    \E p \in Pids :
       /\ IsDaemon(p) /\ Signalled(p) /\ ~proc[p].sig /\ proc[p].handler
       /\ proc[p].pc = "exited" /\ proc[p].status = 1 /\ proc[p].cleaned
       /\ ~files[PidLoc(p)].exists

(* -------------------------------- C7 ----------------------------------- *)
\* C7: when a daemon that has written PidFile terminates normally (run()
\* returns, run() raises, or the handler requests exit), its cleanup action
\* has run and the PidFile it wrote does not exist.
C7_NormalExitRemovesPidFile ==
    [][\A p \in Pids :
         /\ IsDaemon(p) /\ proc[p].pc \in {"register", "signal", "run"}
         /\ proc'[p].pc = "exited"
         => proc'[p].cleaned /\ ~files'[PidLoc(p)].exists]_vars

\* daemons have ended by returning from run() and by raising in run()
C7_Witness ==
    \E p, q \in Pids :
       /\ IsDaemon(p) /\ proc[p].pc = "exited" /\ proc[p].status = 0
       /\ proc[p].cleaned
       /\ IsDaemon(q) /\ proc[q].pc = "exited"
       /\ proc[q].report = "run raised" /\ proc[q].cleaned

(* -------------------------------- C8 ----------------------------------- *)
\* C8: on a PidFile whose content is not an integer, start(), stop() and
\* status() each end with the malformed-PID message and exit status 1, and
\* change nothing else: no fork, no signal, every file as it was.
C8_MalformedAborts ==
    [][\A p \in Pids : \A c \in {"start", "stop", "status"} :
         Reads(p, c) /\ PidFileMalformed(p) =>
            /\ OnlyProcChanges(p)
            /\ proc'[p] = [proc[p] EXCEPT !.pc = "exited", !.status = 1,
                                          !.report = "pid is not a number"]
            /\ proc'[p].sent = <<>>]_vars

\* all three commands have aborted on a malformed PidFile
C8_Witness ==
    \E p, q, r \in Pids :
       /\ proc[p].cmd = "start" /\ proc[p].report = "pid is not a number"
       /\ proc[q].cmd = "stop" /\ proc[q].report = "pid is not a number"
       /\ proc[r].cmd = "status" /\ proc[r].report = "pid is not a number"

(* -------------------------------- C9 ----------------------------------- *)
\* C9: stop() on an absent PidFile reports not running, sends no signal,
\* exits with status 0 and changes nothing.
C9_StopWhenAbsent ==
    [][\A p \in Pids :
         Reads(p, "stop") /\ PidFileAbsent(p) =>
            /\ OnlyProcChanges(p)
            /\ proc'[p] = [proc[p] EXCEPT !.pc = "exited", !.status = 0,
                                          !.report = "not running"]
            /\ proc'[p].sent = <<>>]_vars

\* a stop() has found no PidFile
C9_Witness ==
    \E p \in Pids :
       /\ proc[p].cmd = "stop" /\ proc[p].pc = "exited"
       /\ proc[p].report = "not running" /\ proc[p].status = 0

(* -------------------------------- C10 ---------------------------------- *)
\* the stop process p executes os.kill in this step
Kills(p) == proc[p].cmd = "stop" /\ proc[p].pc = "kill" /\ proc'[p].pc # "kill"

\* C10 as stated: stop() on a PidFile holding integer p sends exactly one
\* SIGTERM to process p, returns without waiting, and leaves PidFile alone.
C10_StopSignalsOnce ==
    [][\A p \in Pids :
         Kills(p) =>
            /\ proc'[p].sent = <<proc[p].pid>>
            /\ proc'[p].pc = "exited" /\ proc'[p].status = 0
            /\ files' = files]_vars

\* C10 amended: stop() on a PidFile holding integer t sends exactly one
\* SIGTERM to t and returns with t still alive when t is a live process;
\* when no process has id t, os.kill raises, no signal is sent and stop()
\* ends with an error.  Either way stop() leaves every file as it is, and a
\* PidFile only ever disappears in the step in which a daemon that wrote it
\* exits and runs its cleanup action.
C10_StopSignalsLiveTarget ==
    [][/\ \A p \in Pids :
            /\ Reads(p, "stop") => files' = files
            /\ Reads(p, "stop") /\ PidFileInt(p) =>
                  /\ proc'[p].pc = "kill" /\ proc'[p].sent = <<>>
                  /\ proc'[p].pid = IntOf(Strip(files[PidLoc(p)].data))
                  /\ OnlyProcChanges(p)
            /\ Kills(p) =>
                  LET t == proc[p].pid IN
                  /\ files' = files /\ nextPid' = nextPid
                  /\ proc'[p].pc = "exited"
                  /\ IF t \in Pids /\ Alive(t)
                     THEN /\ proc'[p].sent = <<t>> /\ proc'[p].status = 0
                          /\ proc'[t] = [proc[t] EXCEPT !.sig = TRUE]
                          /\ \A q \in Pids \ {p, t} : proc'[q] = proc[q]
                     ELSE /\ proc'[p].sent = <<>> /\ proc'[p].status = 1
                          /\ \A q \in Pids \ {p} : proc'[q] = proc[q]
       /\ \A l \in Locations :
            files[l].exists /\ ~files'[l].exists =>
               \E d \in Pids :
                  /\ IsDaemon(d) /\ proc[d].selfpid = d /\ PidLoc(d) = l
                  /\ Alive(d) /\ proc'[d].pc = "exited" /\ proc'[d].cleaned
      ]_vars

\* one stop() has signalled a live daemon, another found no such process
C10_Witness ==
    \E p, q \in Pids :
       /\ proc[p].cmd = "stop" /\ proc[p].pc = "exited"
       /\ Len(proc[p].sent) = 1 /\ proc[p].status = 0
       /\ proc[q].cmd = "stop" /\ proc[q].pc = "exited"
       /\ proc[q].report = "no such process" /\ proc[q].sent = <<>>

(* -------------------------------- C11 ---------------------------------- *)
\* C11: status() on a PidFile that is absent or holds an integer changes no
\* file, creates no process and sends no signal; it reports running exactly
\* when the PidFile is present and not running exactly when it is absent.
C11_StatusIsPure ==
    [][\A p \in Pids :
         Reads(p, "status") /\ ~PidFileMalformed(p) =>
            /\ OnlyProcChanges(p)
            /\ proc'[p].pc = "exited" /\ proc'[p].status = 0
            /\ proc'[p].sent = <<>> /\ ~proc'[p].cleaned
            /\ proc'[p].report = "running" <=> PidFileInt(p)
            /\ proc'[p].report = "not running" <=> PidFileAbsent(p)
            /\ PidFileInt(p) =>
                  proc'[p].pid = IntOf(Strip(files[PidLoc(p)].data))]_vars

\* status() has run twice in a row on the PidFile of a running daemon, with
\* the same answer, and the PidFile still holds that daemon's id
C11_Witness ==
    \E p \in Pids :
       /\ p + 1 \in Pids
       /\ proc[p].cmd = "status" /\ proc[p].report = "running"
       /\ proc[p + 1].cmd = "status" /\ proc[p + 1].report = "running"
       /\ proc[p].pid = proc[p + 1].pid /\ proc[p].pid \in Pids
       /\ files[PidLoc(p)] = FileOf(PrintLine(proc[p].pid), proc[p].pid)

(* -------------------------------- C12 ---------------------------------- *)
ForkFailed(p) == proc[p].report \in {"fork #1 failed", "fork #2 failed"}

\* C12: when the first or the second fork fails, the process that called
\* fork ends with an error (status 1) and nothing else changes: no file is
\* touched and no process created; that process has written no PidFile and
\* registered nothing, and no process descends from the failed fork, so
\* run() is never invoked.
C12_ForkFailureAborts ==
    /\ [][\A p \in Pids :
            /\ proc[p].pc \in {"fork1", "fork2"}
            /\ proc'[p].pc # proc[p].pc /\ nextPid' = nextPid
            => /\ proc'[p].pc = "exited" /\ proc'[p].status = 1
               /\ proc'[p].report =
                     (IF proc[p].pc = "fork1" THEN "fork #1 failed"
                                              ELSE "fork #2 failed")
               /\ OnlyProcChanges(p)]_vars
    /\ [](\A p \in Pids :
            ForkFailed(p) =>
               /\ proc[p].pc = "exited" /\ proc[p].status = 1
               /\ proc[p].selfpid = 0 /\ ~proc[p].atexit /\ ~proc[p].handler
               /\ ~proc[p].cleaned /\ "run" \notin Range(proc[p].steps)
               /\ \A q \in Pids : proc[q].parent # p
               /\ \A l \in Locations : files[l].by # p)

\* one start() has failed at the first fork, another at the second
C12_Witness ==
    \E p, q \in Pids :
       /\ proc[p].report = "fork #1 failed" /\ proc[p].kind = "caller"
       /\ proc[q].report = "fork #2 failed" /\ proc[q].kind = "leader"

(* -------------------------------- C13 ---------------------------------- *)
\* C13: once a daemon that has written PidFile has terminated without
\* running its cleanup action, PidFile stays with the dead process's id (so
\* that every later start() and status() finds it).
C13_StalePidFileStays ==
    \A d \in Pids :
       IsDaemon(d) /\ proc[d].pc = "killed" /\ proc[d].selfpid = d =>
          files[PidLoc(d)] = FileOf(PrintLine(d), d)

(* -------------------------------- C14 ---------------------------------- *)
\* the steps of daemonize and start() in the process that becomes the daemon
DaemonOrder ==
    <<"fork", "chdir", "umask", "setsid", "fork", "flush", "redirect",
      "pidfile", "atexit", "handler", "run">>

IsPrefix(s, t) == Len(s) <= Len(t) /\ s = SubSeq(t, 1, Len(s))

\* C14: in every process forked by start(), the steps done so far are an
\* initial part of: fork, chdir, umask, setsid, fork, flush, redirect, write
\* PidFile, register cleanup, install handler, run; a process in run() has
\* done them all, and each step's effect is there exactly when the step is.
C14_DaemonizeOrder ==
    \A p \in Pids :
       proc[p].kind \in {"leader", "daemon"} =>
          LET r == proc[p]
              did(x) == x \in Range(r.steps) IN
          /\ IsPrefix(r.steps, DaemonOrder)
          /\ r.pc = "run" => r.steps = DaemonOrder
          /\ did("run") => r.pc \in {"run", "exited", "killed"}
          /\ did("setsid") <=> r.sid # 0
          /\ did("chdir") => r.cwd = RootDir
          /\ did("umask") <=> r.umask = 0
          /\ did("redirect") <=> r.stdio = "files"
          /\ did("pidfile") => r.selfpid = p
          /\ r.selfpid = p => did("redirect")
          /\ did("atexit") <=> r.atexit
          /\ did("handler") <=> r.handler
          /\ (\E l \in Locations : files[l].by = p) => did("redirect")

\* a daemon is in run() with all ten steps behind it
C14_Witness ==
    \E p \in Pids :
       /\ IsDaemon(p) /\ proc[p].pc = "run" /\ proc[p].steps = DaemonOrder
       /\ proc[p].handler /\ proc[p].atexit
       /\ files[PidLoc(p)] = FileOf(PrintLine(p), p)

(* -------------------------------- C15 ---------------------------------- *)
\* the fork called by p succeeds in this step
ForkSucceeds(p) ==
    /\ proc[p].pc \in {"fork1", "fork2"} /\ proc'[p].pc # proc[p].pc
    /\ nextPid' = nextPid + 1

\* C15: of the processes of one start(), only the child of the second fork
\* goes beyond the forks: the original caller and the session leader exit
\* with status 0 in the step of their fork, never write or remove PidFile,
\* never register the cleanup, never install the handler, never reach
\* run(); each has at most one child, and whoever writes PidFile or is in
\* run() is the child of a session leader that is the child of a start().
C15_OnlyGrandchildRuns ==
    /\ [][\A p \in Pids :
            ForkSucceeds(p) =>
               /\ proc'[p].pc = "exited" /\ proc'[p].status = 0
               /\ files' = files
               /\ proc'[nextPid].parent = p
               /\ proc'[nextPid].pc \in {"detach", "redirect"}]_vars
    /\ [](\A p \in Pids :
            /\ proc[p].kind \in {"caller", "leader"} =>
                  /\ proc[p].pc \notin {"redirect", "open_pidfile",
                        "write_pidfile", "register", "signal", "run"}
                  /\ proc[p].selfpid = 0 /\ ~proc[p].atexit
                  /\ ~proc[p].handler /\ ~proc[p].cleaned
                  /\ "run" \notin Range(proc[p].steps)
                  /\ \A l \in Locations : files[l].by # p
                  /\ Cardinality({q \in Pids : proc[q].parent = p}) <= 1
            /\ IsDaemon(p) =>
                  LET l == proc[p].parent
                      c == proc[l].parent IN
                  /\ proc[l].kind = "leader" /\ proc[c].kind = "caller"
                  /\ proc[c].cmd = "start" /\ proc[c].pid = None
                  /\ proc[l].pc = "exited" /\ proc[l].status = 0
                  /\ proc[c].pc = "exited" /\ proc[c].status = 0
                  /\ Cardinality({q \in Pids : proc[q].parent = p}) = 0)

\* the three processes of one start(): caller and leader have exited with
\* status 0, the grandchild has written PidFile and is in run()
C15_Witness ==
    \E c, l, d \in Pids :
       /\ proc[c].kind = "caller" /\ proc[c].cmd = "start"
       /\ proc[l].parent = c /\ proc[d].parent = l
       /\ proc[c].pc = "exited" /\ proc[c].status = 0
       /\ proc[l].pc = "exited" /\ proc[l].status = 0
       /\ proc[d].pc = "run" /\ files[PidLoc(d)].by = d

(* -------------------------------- C16 ---------------------------------- *)
\* the PidFile that start(), stop() and status() read
CallerLoc == Resolve(pidfile, shellCwd)

\* file f holds the decimal id of process p
Holds(f, p) == f.exists /\ IsInt(Strip(f.data)) /\ IntOf(Strip(f.data)) = p

\* C16: every daemon that is alive and has finished setup is the one
\* recorded: the PidFile that stop() reads exists and holds its process id.
C16_LiveDaemonIsRecorded ==
    \A d \in Pids :
       IsDaemon(d) /\ proc[d].pc = "run" => Holds(files[CallerLoc], d)

(* -------------------------------- C18 ---------------------------------- *)
\* C18: once a daemon exists, no start(), stop() or status() aborts with
\* the malformed-PID error (the only ill-formed PidFile it could then have
\* read is one that a daemon is in the middle of writing).
C18_NoReaderSeesPartialWrite ==
    (\E d \in Pids : IsDaemon(d)) =>
       \A p \in Pids : proc[p].report # "pid is not a number"

(* -------------------------------- C19 ---------------------------------- *)
\* C19: the file a daemon writes and removes is the file the commands read
\* in the caller's working directory, and a status() that runs while a
\* daemon is in run() with its PidFile in place reports running.
C19_SamePidFile ==
    /\ [](\A d \in Pids :
            IsDaemon(d) /\ proc[d].selfpid = d => PidLoc(d) = CallerLoc)
    /\ [][\A p, d \in Pids :
            /\ Reads(p, "status")
            /\ IsDaemon(d) /\ proc[d].pc = "run" /\ Holds(files[PidLoc(d)], d)
            => proc'[p].report = "running"]_vars

(* -------------------------------- C17 ---------------------------------- *)
\* p is the start() of a restart: a start() invoked after a stop()
IsRestart(p) ==
    /\ proc[p].kind = "caller" /\ proc[p].cmd = "start"
    /\ \E s \in Pids : s < p /\ proc[s].cmd = "stop"

\* the daemon d descends from the start() p
StartedBy(d, p) == IsDaemon(d) /\ proc[proc[d].parent].parent = p

\* a fork or an open has failed
EnvFailure ==
    \E q \in Pids :
       proc[q].report \in {"fork #1 failed", "fork #2 failed", "cannot open"}

\* every command of the restart is over and no process has a step left
\* but the work of run()
Settled ==
    /\ cmds >= Len(RestartScenario) /\ ~ForegroundBusy
    /\ \A q \in Pids : Alive(q) => proc[q].pc = "run" /\ ~proc[q].sig

\* C17 as stated: after stop() and then start(), a daemon is alive again;
\* so once everything has settled (and no fork or open has failed), the
\* start() of the restart has brought a daemon as far as run().
C17_RestartStartsDaemon ==
    Settled /\ ~EnvFailure =>
       \A p \in Pids :
          IsRestart(p) =>
             \E d \in Pids :
                StartedBy(d, p) /\ "run" \in Range(proc[d].steps)

\* C17 amended: when a running daemon is signalled by stop() and start() is
\* called after stop() has returned, the signalled daemon eventually exits
\* with its cleanup run; start() starts a new daemon only if it reads
\* PidFile after that cleanup, and then that daemon is the only one and
\* PidFile holds its id from the moment it is written; if start() reads
\* PidFile earlier it reports already running and does nothing, and in the
\* end no daemon is alive and no PidFile exists.
C17_RestartSettles ==
    /\ \A d \in Pids :
          Signalled(d) ~> (proc[d].pc = "exited" /\ proc[d].cleaned)
    /\ [](\A d, p \in Pids :
            Signalled(d) /\ IsRestart(p) =>
               /\ proc[p].report = "already running" =>
                     /\ proc[p].pid = d
                     /\ \A e \in Pids : ~StartedBy(e, p) /\ proc[e].parent # p
               /\ \A e \in Pids :
                     StartedBy(e, p) =>
                        /\ proc[d].pc = "exited" /\ proc[d].cleaned
                        /\ proc[e].pc \in {"register", "signal", "run"}
                              => files[PidLoc(e)] = FileOf(PrintLine(e), e)
                        /\ Cardinality({x \in Pids :
                                           IsDaemon(x) /\ Alive(x)}) <= 1)
    /\ <>[](\A d, p \in Pids :
              /\ Signalled(d) /\ IsRestart(p)
              /\ proc[p].report = "already running"
              => /\ \A l \in Locations : ~files[l].exists
                 /\ \A x \in Pids : ~Alive(x))

\* both outcomes of a restart: (in one state) the signalled daemon has
\* exited with cleanup and the daemon of the second start() is in run()
\* with its id in PidFile
C17_Witness ==
    \E d, p, e \in Pids :
       /\ Signalled(d) /\ proc[d].pc = "exited" /\ proc[d].cleaned
       /\ IsRestart(p) /\ StartedBy(e, p) /\ proc[e].pc = "run"
       /\ Holds(files[CallerLoc], e)

TypeOK ==
    /\ nextPid \in FirstPid .. LastPid + 1
    /\ cmds \in 0..MaxCmds
    /\ \A p \in Pids : p >= nextPid => proc[p] = Unused

====
